---- MODULE Spec2Model ----
(***************************************************************************)
(* Model of the cyclemaps route builder (src/static/js/shared.js, the      *)
(* second "ROUTE BUILDER" closure, lines 789-1601) and of the sampling     *)
(* loop shared with the route detail page (src/unnamed/part_001).          *)
(*                                                                         *)
(* The builder is a single-threaded, event-driven program.  Every action   *)
(* below is one run-to-completion piece of JavaScript: an event handler,   *)
(* a timer callback, or the continuation of an async function after one    *)
(* of its awaits.                                                          *)
(*                                                                         *)
(* Abstractions, all value abstractions and none of control flow:          *)
(*  - the waypoint array is its length; the waypoints' positions are       *)
(*    represented by the number of the edit that produced them;            *)
(*  - a coordinate is a record [ref, pt]: ref is the identity of the       *)
(*    JavaScript array object (the code compares coordinates with !==,     *)
(*    i.e. by identity), pt is a position on a line in km;                 *)
(*  - haversine is the distance on that line;                              *)
(*  - the chart raster is the pair (elevations, distances) it was drawn    *)
(*    from.                                                                *)
(***************************************************************************)
EXTENDS Integers, Sequences, FiniteSets, TLC

\* ------------------------------------------------------------------ bounds
\* Number of geometry changes (add / drag / remove / clear) explored.
MaxEdits == 3
\* Number of geometry changes explored where a burst of edits is examined.
BurstEdits == 5
\* Largest number of waypoints placed on the map.
MaxWaypoints == 2
\* Number of routing requests explored (timer firings).
MaxRouteReqs == 2
\* Longest path handed to the sampling loop on its own.
MaxSamplerLen == 245
\* Most samples of a profile handed to the hover lookup on its own.
MaxHoverLen == 4
\* Largest distance, in km, between two consecutive samples of that profile.
MaxHoverStep == 2
\* Number of equal parts of the chart width the pointer may stand on.
HoverGrid == 4
\* Most samples of a profile handed to the grade computations on their own.
MaxGradeLen == 3
\* Largest distance, in km, between two consecutive samples of that profile.
MaxGradeStep == 1
\* Most samples of a profile handed to the peak / valley marking on its own.
MaxPeaksLen == 4
\* Number of equal parts of the chart width the pointer may stand on during a
\* builder session (it may also stand left and right of the plot).
PointerGrid == 2

\* ------------------------------------------------------- program constants
\* const maxSamples = 80;
maxSamples == 80

\* --------------------------------------------------------------- JS values
Null == [null |-> TRUE]
Undefined == [undefined |-> TRUE]

\* A JSON number / a JSON null inside data.elevations.
JNum(v) == [t |-> "num", v |-> v]
JNull == [t |-> "null"]

\* Text of #stat-elevation.
StatDash == [text |-> "dash"]
StatLoading == [text |-> "..."]
StatError == [text |-> "Error"]
StatGain(g) == [text |-> "gain", gain |-> g]

Abs(n) == IF n < 0 THEN -n ELSE n

VARIABLES
  waypoints,           \* waypoints.length
  edits,               \* number of geometry changes made so far
  burst,               \* edits (leaving >= 2 waypoints) since the timer last fired
  routeTimeout,        \* TRUE iff the debounce timer is pending
  routeReqs,           \* routing requests in flight, in issue order
  routeIssued,         \* number of routing requests issued so far
  routeGeometry,       \* Null or [coordinates |-> Seq(coordinate)]
  geomEdit,            \* the edit routeGeometry was derived from
  routeDistance,
  routeElevations,     \* Null or [elevations, distances, coordinates, indices]
  elevEdit,            \* the edit routeElevations / routeElevationGain were derived from
  routeElevationGain,
  routeSurfaceData,
  elevReqs,            \* elevation requests in flight (fetchElevation calls
                       \* that have not returned), in issue order
  elevAbortController, \* position in elevReqs of the request whose signal the
                       \* controller holds; 0 when null or that call returned
  surfReqs,            \* surface requests in flight, in issue order
  surfaceAbortController,
  statElevation,       \* text of #stat-elevation
  chartShown,          \* #elevation-profile is displayed
  profileCache,        \* _profileCache
  gradientFeatures,    \* features of the 'builder-gradient' source
  canvas,              \* pixels of #elevation-canvas: Null before the first
                       \* draw, else [base, hover]: the chart raster painted
                       \* and the set of sample indices whose hover overlay
                       \* is painted over it
  pointer,             \* Null while the pointer is off the chart, else
                       \* [p]: it stands at p / PointerGrid of the plot width
  hoverMarker,         \* features of the 'elev-hover-point' source: the
                       \* positions of the points it shows
  isSaving,            \* isSaving
  payload,             \* the payload saveRoute built last, or Null
  samplerPath,         \* input of the sampling loop checked on its own
  samplerOut,          \* its output, Null before it ran
  routeData,           \* detail page: routeData, Null before the route loaded
  detailPc,            \* detail page: "loading", "loaded" or "failed"
  detailElevations,    \* detail page: routeElevations
  detailLookup,        \* detail page: its /api/elevation call: "none",
                       \* "pending", "failed" or "applied"
  detailRequest,       \* detail page: the request fetchElevation sent, or Null
  detailStat,          \* detail page: text of #stat-elevation
  detailChartShown,    \* detail page: #elevation-profile is displayed
  detailCache,         \* detail page: _profileCache
  detailOverlay,       \* detail page: [features] of the 'gradient' source,
                       \* Null while the source does not exist
  detailSurfaceBar,    \* detail page: data shown by renderSurfaceBar, or Null
  detailSurfaceLookup, \* detail page: its /api/surface call is pending
  hoverIn,             \* input of the hover lookup checked on its own
  hoverOut,            \* the index it selects, Null before it ran
  gradeIn,             \* input of the grade computations checked on their own
  gradeOut,            \* their results, Null before they ran
  peaksIn,             \* input of the peak / valley marking checked on its own
  peaksOut             \* its marks, Null before it ran

vars == <<waypoints, edits, burst, routeTimeout, routeReqs, routeIssued, routeGeometry,
          geomEdit, routeDistance, routeElevations, elevEdit,
          routeElevationGain, routeSurfaceData, elevReqs, surfReqs,
          elevAbortController, surfaceAbortController, statElevation, chartShown, profileCache, gradientFeatures,
          canvas, pointer, hoverMarker, isSaving, payload,
          samplerPath, samplerOut,
          routeData, detailPc, detailElevations, detailLookup, detailRequest,
          detailStat, detailChartShown, detailCache, detailOverlay,
          detailSurfaceBar, detailSurfaceLookup,
          hoverIn, hoverOut, gradeIn, gradeOut, peaksIn, peaksOut>>

builderVars == <<waypoints, edits, burst, routeTimeout, routeReqs, routeIssued,
                 routeGeometry, geomEdit, routeDistance, routeElevations,
                 elevEdit, routeElevationGain, routeSurfaceData, elevReqs,
                 surfReqs, elevAbortController, surfaceAbortController,
                 statElevation, chartShown, profileCache,
                 gradientFeatures, canvas, pointer, hoverMarker, isSaving,
                 payload>>

samplerVars == <<samplerPath, samplerOut>>

detailVars == <<routeData, detailPc, detailElevations, detailLookup,
                detailRequest, detailStat, detailChartShown, detailCache,
                detailOverlay, detailSurfaceBar, detailSurfaceLookup>>

hoverVars == <<hoverIn, hoverOut>>
gradeVars == <<gradeIn, gradeOut>>
peaksVars == <<peaksIn, peaksOut>>

\* The pointer over the chart and the marker it puts on the map.
pointerVars == <<pointer, hoverMarker>>
\* The save under way.
saveVars == <<isSaving, payload>>

\* Everything the builder's edits, timers and responses leave alone: what is
\* not the builder's, the pointer and the save.
otherVars == <<samplerVars, detailVars, hoverVars, gradeVars, peaksVars,
               pointerVars, saveVars>>


\* ---------------------------------------------------------- pure functions
Min(a, b) == IF a < b THEN a ELSE b
Max(a, b) == IF a > b THEN a ELSE b

\* The coordinate arrays a routing answer of m points decodes to: one fresh
\* array object per position (ref); with v = 0 every point has the same
\* position, with v = 1 they lie 1 km apart.
RoutePath(m, v) == [i \in 1..m |-> [ref |-> i, pt |-> v * (i - 1)]]

\* Comparison of two coordinate arrays by content, which !== is not.
SameValue(a, b) == a.pt = b.pt
\* a === b on two coordinate arrays: object identity.
SameObject(a, b) == a.ref = b.ref

\* haversine(lat1, lon1, lat2, lon2), in km.
haversine(a, b) == Abs(a.pt - b.pt)

\* The sampling loop of fetchElevation: indices are 0-based as in the code.
Sample(coords) ==
  LET m == Len(coords)
      step == Max(1, m \div maxSamples)
      count == IF m = 0 THEN 0 ELSE (m - 1) \div step + 1
      idx0 == [k \in 1..count |-> (k - 1) * step]
      smp0 == [k \in 1..count |-> coords[idx0[k] + 1]]
      forceLast == count > 0 /\ ~SameObject(smp0[count], coords[m])
  IN  IF forceLast
        THEN [sampled |-> Append(smp0, coords[m]), indices |-> Append(idx0, m - 1)]
        ELSE [sampled |-> smp0, indices |-> idx0]

\* const distances = [0]; for (i = 1; i < sampled.length; i++) push(prev + d)
Distances(sampled) ==
  LET d[i \in 1..Max(1, Len(sampled))] ==
        IF i = 1 THEN 0 ELSE d[i - 1] + haversine(sampled[i - 1], sampled[i])
  IN  [i \in 1..Max(1, Len(sampled)) |-> d[i]]

\* data.elevations[i] == null || isNaN(data.elevations[i])  ->  0
Sanitize(elevations) ==
  [i \in 1..Len(elevations) |->
     IF elevations[i].t = "num" THEN elevations[i].v ELSE 0]

\* `data.elevations` / `routeElevations.elevations` is not undefined.
HasElevations(obj) == "elevations" \in DOMAIN obj

\* allCoords.slice(lo, hi + 1) with 0-based lo, hi.
Slice(allCoords, lo, hi) ==
  IF lo >= Len(allCoords) THEN <<>>
  ELSE SubSeq(allCoords, lo + 1, Min(hi + 1, Len(allCoords)))

\* array[i] of a 0-based JavaScript index into a sequence.
At(arr, i) == IF i + 1 \in 1..Len(arr) THEN arr[i + 1] ELSE Undefined

\* The grade of the hover tooltip: run > 0 ? (rise / run) * 100 : 0, kept as
\* a fraction.
SignedGrade(elevs, dists, i) ==
  LET rise == elevs[i + 1] - elevs[i]
      run == IF i + 1 <= Len(dists) THEN (dists[i + 1] - dists[i]) * 1000 ELSE 0
  IN  IF run > 0 THEN [num |-> rise * 100, den |-> run]
      ELSE [num |-> 0, den |-> 1]

\* A grade that would take the run in km, not in m.
GradePerKm(elevs, dists, i) ==
  LET rise == elevs[i + 1] - elevs[i]
      run == IF i + 1 <= Len(dists) THEN dists[i + 1] - dists[i] ELSE 0
  IN  IF run > 0 THEN [num |-> Abs(rise) * 100, den |-> run]
      ELSE [num |-> 0, den |-> 1]

\* grade = run > 0 ? Math.abs(rise / run) * 100 : 0, kept as a fraction.
Grade(elevs, dists, i) ==
  LET rise == elevs[i + 1] - elevs[i]
      run == IF i + 1 <= Len(dists) THEN (dists[i + 1] - dists[i]) * 1000 ELSE 0
  IN  IF run > 0 THEN [num |-> Abs(rise) * 100, den |-> run]
      ELSE [num |-> 0, den |-> 1]

\* The segment geometry applyGradientColoring takes for samples i, i+1
\* (1-based i): the slice of the full path, or the two sampled coordinates
\* when an index is missing.
SegCoords(profile, allCoords, i) ==
  IF "indices" \in DOMAIN profile /\ i + 1 <= Len(profile.indices)
    THEN Slice(allCoords, profile.indices[i], profile.indices[i + 1])
    ELSE <<At(profile.coordinates, i - 1), At(profile.coordinates, i)>>

\* The features applyGradientColoring builds (segments of fewer than two
\* points are skipped by its `continue`).
GradientFeatures(profile, allCoords) ==
  LET n == Len(profile.elevations)
      cand == [i \in 1..(n - 1) |->
                 [grade |-> Grade(profile.elevations, profile.distances, i),
                  coordinates |-> SegCoords(profile, allCoords, i)]]
      keep(f) == Len(f.coordinates) >= 2
  IN  SelectSeq(cand, keep)

\* applyGradientColoring(): the new content of the gradient source.
ApplyGradientColoring(profile, geometry, features) ==
  IF profile = Null \/ Len(profile.elevations) < 2 \/ geometry = Null
    THEN features
    ELSE GradientFeatures(profile, geometry.coordinates)

\* drawElevationProfile(): <<container displayed, _profileCache>>.
DrawElevationProfile(profile) ==
  IF profile = Null \/ Len(profile.elevations) < 2
    THEN [shown |-> FALSE, cache |-> Null]
    ELSE [shown |-> TRUE,
          cache |-> [elevations |-> profile.elevations,
                     distances |-> profile.distances]]

\* drawElevationProfile(): the pixels of the canvas.  A draw that hides the
\* container returns before it touches them; the others paint the raster that
\* is cached, and no hover overlay (no caller passes hoverIdx).
CanvasAfterDraw(profile, pixels) ==
  IF DrawElevationProfile(profile).shown
    THEN [base |-> DrawElevationProfile(profile).cache, hover |-> {}]
    ELSE pixels

\* updateStats(): the text of #stat-elevation.
UpdateStats(gain) == IF gain > 0 THEN StatGain(gain) ELSE StatDash

\* ------------------------------------------------------------ the requests
\* What the routing engine may answer for a request made with nwp waypoints:
\* a path of 2 or of 3 points, only when there are two waypoints to join.
RouteAnswers(nwp) ==
  IF nwp < 2 THEN {}
  ELSE {[coordinates |-> RoutePath(m, 1)] : m \in {2, 3}}

\* data.routes[0].distance, in metres.
RouteDistanceOf(geometry) ==
  1000 * haversine(geometry.coordinates[1],
                   geometry.coordinates[Len(geometry.coordinates)])

\* What /api/elevation may answer with status 200 to n coordinates: no
\* elevations list; a rising list of n - 1 values; a rising list of n values
\* with an elevation_gain_m of 50; a list of n values starting with a null.
\* Only the third carries an elevation_gain_m.
ElevationList(kind, len) ==
  [i \in 1..len |->
     IF kind = "nullFirst" /\ i = 1 THEN JNull ELSE JNum(100 + 10 * i)]

ElevationAnswers(n) ==
  {[status |-> "ok"],
   [status |-> "ok", elevations |-> ElevationList("rising", n - 1)],
   [status |-> "ok", elevations |-> ElevationList("rising", n),
    elevation_gain_m |-> 50],
   [status |-> "ok", elevations |-> ElevationList("nullFirst", n)]}

\* data.elevation_gain_m || 0
GainOrZero(data) ==
  IF "elevation_gain_m" \in DOMAIN data THEN data.elevation_gain_m ELSE 0

\* What /api/surface may answer.
SurfaceAnswers == {[breakdown |-> <<[type |-> "asphalt", percentage |-> 100]>>]}

\* seq without its r-th element: an async call that returned.
RemoveAt(seq, r) == SubSeq(seq, 1, r - 1) \o SubSeq(seq, r + 1, Len(seq))

\* The controller after the call at position r returned.
ControllerAfter(ctl, r) ==
  IF ctl = r THEN 0 ELSE IF ctl > r THEN ctl - 1 ELSE ctl

\* A fetch that would leave the previous request running.
KeepPrevious(reqs, ctl) == reqs
\* if (elevAbortController) elevAbortController.abort(), and the same line
\* of fetchSurface: the signal of the request issued last is aborted.
AbortPrevious(reqs, ctl) ==
  IF ctl = 0 THEN reqs ELSE [reqs EXCEPT ![ctl].aborted = TRUE]

\* The guard fetchElevation() and fetchSurface() start with.
FetchRuns(geometry) ==
  geometry # Null /\ Len(geometry.coordinates) >= 2

\* The request fetchElevation() issues for a geometry.
NewElevReq(geometry, edit) ==
  [edit |-> edit, aborted |-> FALSE, pc |-> "fetch",
   sampled |-> Sample(geometry.coordinates).sampled,
   indices |-> Sample(geometry.coordinates).indices]

\* elevReqs after the synchronous part of fetchElevation().
FetchElevation(geometry, edit, reqs, ctl) ==
  IF FetchRuns(geometry)
    THEN Append(AbortPrevious(reqs, ctl), NewElevReq(geometry, edit))
    ELSE reqs

\* surfReqs after the synchronous part of fetchSurface().
FetchSurface(geometry, reqs, ctl) ==
  IF FetchRuns(geometry)
    THEN Append(AbortPrevious(reqs, ctl), [aborted |-> FALSE, pc |-> "fetch"])
    ELSE reqs

\* ------------------------------------------------------------------- Init
\* The builder's variables as their declarations initialise them.
BuilderInit ==
  /\ waypoints = 0
  /\ edits = 0
  /\ burst = 0
  /\ routeTimeout = FALSE
  /\ routeReqs = <<>>
  /\ routeIssued = 0
  /\ routeGeometry = Null
  /\ geomEdit = 0
  /\ routeDistance = 0
  /\ routeElevations = Null
  /\ elevEdit = 0
  /\ routeElevationGain = 0
  /\ routeSurfaceData = Null
  /\ elevReqs = <<>>
  /\ elevAbortController = 0
  /\ surfReqs = <<>>
  /\ surfaceAbortController = 0
  /\ statElevation = StatDash
  /\ chartShown = FALSE
  /\ profileCache = Null
  /\ gradientFeatures = <<>>
  /\ canvas = Null
  /\ pointer = Null
  /\ hoverMarker = <<>>
  /\ isSaving = FALSE
  /\ payload = Null

\* The sampling loop, the detail page and the computations checked on their
\* own before they are given anything to do.
SamplerIdle == samplerPath = <<>> /\ samplerOut = Null

DetailIdle ==
  /\ routeData = Null
  /\ detailPc = "loading"
  /\ detailElevations = Null
  /\ detailLookup = "none"
  /\ detailRequest = Null
  /\ detailStat = StatDash
  /\ detailChartShown = FALSE
  /\ detailCache = Null
  /\ detailOverlay = Null
  /\ detailSurfaceBar = Null
  /\ detailSurfaceLookup = FALSE

HoverIdle == hoverIn = Null /\ hoverOut = Null
GradeIdle == gradeIn = Null /\ gradeOut = Null
PeaksIdle == peaksIn = Null /\ peaksOut = Null

Init ==
  /\ BuilderInit
  /\ SamplerIdle
  /\ DetailIdle
  /\ HoverIdle
  /\ GradeIdle
  /\ PeaksIdle

\* ------------------------------------------------------------ geometry edits
requestVars == <<routeReqs, routeIssued, elevReqs, elevAbortController, surfReqs,
                 surfaceAbortController>>
routeState == <<routeGeometry, geomEdit, routeDistance, routeElevations,
                elevEdit, routeElevationGain, routeSurfaceData>>
uiState == <<statElevation, chartShown, profileCache, gradientFeatures,
             canvas>>

\* The reset both queryOSRM (fewer than 2 waypoints) and clearRoute perform:
\* the five route variables, clearGradientLine, updateStats,
\* drawElevationProfile.
ResetRoute ==
  /\ routeGeometry' = Null
  /\ geomEdit' = edits'
  /\ routeDistance' = 0
  /\ routeElevations' = Null
  /\ elevEdit' = edits'
  /\ routeElevationGain' = 0
  /\ routeSurfaceData' = Null
  /\ gradientFeatures' = <<>>
  /\ statElevation' = UpdateStats(0)
  /\ chartShown' = DrawElevationProfile(Null).shown
  /\ profileCache' = DrawElevationProfile(Null).cache
  /\ canvas' = CanvasAfterDraw(Null, canvas)

\* queryOSRM(), called with the waypoints already updated.
queryOSRM ==
  IF waypoints' < 2
    THEN /\ routeTimeout' = FALSE
         /\ burst' = 0
         /\ ResetRoute
    ELSE /\ routeTimeout' = TRUE
         /\ burst' = burst + 1
         /\ UNCHANGED <<routeState, uiState>>

\* onMapClick -> addWaypoint
addWaypoint(limit) ==
  /\ edits < limit
  /\ waypoints < MaxWaypoints
  /\ waypoints' = waypoints + 1
  /\ edits' = edits + 1
  /\ queryOSRM
  /\ UNCHANGED <<requestVars, otherVars>>

\* onMapClick: clicks on the map are ignored while a save is under way.
onMapClick(limit) ==
  /\ ~isSaving
  /\ addWaypoint(limit)

\* marker 'dragend'
dragWaypoint(limit) ==
  /\ edits < limit
  /\ waypoints >= 1
  /\ waypoints' = waypoints
  /\ edits' = edits + 1
  /\ queryOSRM
  /\ UNCHANGED <<requestVars, otherVars>>

\* removeWaypoint(index), also reached from undoWaypoint
removeWaypoint(limit) ==
  /\ edits < limit
  /\ waypoints >= 1
  /\ waypoints' = waypoints - 1
  /\ edits' = edits + 1
  /\ queryOSRM
  /\ UNCHANGED <<requestVars, otherVars>>

\* window.clearRoute (confirmed): it does not touch routeTimeout.
clearRoute(limit) ==
  /\ edits < limit
  /\ waypoints >= 1
  /\ waypoints' = 0
  /\ edits' = edits + 1
  /\ burst' = 0
  /\ ResetRoute
  /\ UNCHANGED <<routeTimeout, requestVars, otherVars>>

\* ------------------------------------------------------------------ routing
\* The setTimeout callback of queryOSRM, up to `await fetch(url)`.
TimerFires ==
  /\ routeTimeout
  /\ routeIssued < MaxRouteReqs
  /\ routeIssued' = routeIssued + 1
  /\ routeTimeout' = FALSE
  /\ burst' = 0
  /\ routeReqs' = Append(routeReqs, [edit |-> edits, nwp |-> waypoints])
  /\ UNCHANGED <<waypoints, edits, routeState, uiState, elevReqs,
                 elevAbortController, surfReqs, surfaceAbortController,
                 otherVars>>

\* A failure that would clear the route, as a change to fewer than two
\* waypoints does.
RouteFailsClearsRoute(r) ==
  /\ routeReqs' = RemoveAt(routeReqs, r)
  /\ routeGeometry' = Null
  /\ routeDistance' = 0
  /\ UNCHANGED <<waypoints, edits, burst, routeTimeout, geomEdit,
                 routeElevations, elevEdit, routeElevationGain,
                 routeSurfaceData, uiState, routeIssued, elevReqs,
                 elevAbortController, surfReqs, surfaceAbortController,
                 otherVars>>

\* The routing request throws, or answers without a route.
RouteFails(r) ==
  /\ routeReqs' = RemoveAt(routeReqs, r)
  /\ UNCHANGED <<waypoints, edits, burst, routeTimeout, routeState, uiState,
                 routeIssued, elevReqs, elevAbortController, surfReqs,
                 surfaceAbortController, otherVars>>

\* The routing request answers with a route: lines 944-950.
RouteArrives(r, geometry) ==
  /\ geometry \in RouteAnswers(routeReqs[r].nwp)
  /\ routeReqs' = RemoveAt(routeReqs, r)
  /\ routeGeometry' = geometry
  /\ geomEdit' = routeReqs[r].edit
  /\ routeDistance' = RouteDistanceOf(geometry)
  /\ statElevation' = IF FetchRuns(geometry) THEN StatLoading
                      ELSE UpdateStats(routeElevationGain)
  /\ elevReqs' = FetchElevation(geometry, routeReqs[r].edit, elevReqs,
                                elevAbortController)
  /\ elevAbortController' = IF FetchRuns(geometry) THEN Len(elevReqs')
                            ELSE elevAbortController
  /\ surfReqs' = FetchSurface(geometry, surfReqs, surfaceAbortController)
  /\ surfaceAbortController' = IF FetchRuns(geometry) THEN Len(surfReqs')
                               ELSE surfaceAbortController
  /\ UNCHANGED <<waypoints, edits, burst, routeTimeout, routeIssued, routeElevations,
                 elevEdit, routeElevationGain, routeSurfaceData, chartShown,
                 profileCache, gradientFeatures, canvas, otherVars>>

\* ---------------------------------------------------- elevation responses
elevFrame == <<waypoints, edits, burst, routeTimeout, routeReqs, routeIssued, surfReqs,
               surfaceAbortController, routeGeometry, geomEdit, routeDistance,
               routeSurfaceData, otherVars>>
profileState == <<routeElevations, elevEdit, routeElevationGain>>
chartState == <<chartShown, profileCache, gradientFeatures, canvas>>

\* The fetchElevation() call at position r returns.
ElevReturns(r) ==
  /\ elevReqs' = RemoveAt(elevReqs, r)
  /\ elevAbortController' = ControllerAfter(elevAbortController, r)

\* `await fetch(...)` rejects with AbortError: the catch returns.
ElevFetchAborted(r) ==
  /\ elevReqs[r].pc = "fetch" /\ elevReqs[r].aborted
  /\ ElevReturns(r)
  /\ UNCHANGED <<elevFrame, profileState, chartState, statElevation>>

\* A catch that would also hide the chart, the behaviour the spec calls
\* "chart hidden": what the code does not do.
ElevFetchNetworkErrorHidesChart(r) ==
  /\ elevReqs[r].pc = "fetch" /\ ~elevReqs[r].aborted
  /\ ElevReturns(r)
  /\ statElevation' = StatError
  /\ chartShown' = FALSE
  /\ profileCache' = Null
  /\ UNCHANGED <<elevFrame, profileState, gradientFeatures, canvas>>

\* `await fetch(...)` rejects with a network error: the catch shows 'Error'.
ElevFetchNetworkError(r) ==
  /\ elevReqs[r].pc = "fetch" /\ ~elevReqs[r].aborted
  /\ ElevReturns(r)
  /\ statElevation' = StatError
  /\ UNCHANGED <<elevFrame, profileState, chartState>>

\* fetch resolves with !resp.ok: the function awaits resp.json().catch(...).
ElevFetchNotOk(r) ==
  /\ elevReqs[r].pc = "fetch" /\ ~elevReqs[r].aborted
  /\ elevReqs' = [elevReqs EXCEPT ![r].pc = "errbody"]
  /\ UNCHANGED <<elevFrame, elevAbortController, profileState, chartState,
                 statElevation>>

\* resp.json().catch(() => ({})) settles, whatever happened to the body and
\* to the signal meanwhile: lines 1132-1134.
ElevErrorBody(r) ==
  /\ elevReqs[r].pc = "errbody"
  /\ ElevReturns(r)
  /\ statElevation' = StatError
  /\ UNCHANGED <<elevFrame, profileState, chartState>>

\* fetch resolves with resp.ok: the function awaits resp.json().
ElevFetchOk(r) ==
  /\ elevReqs[r].pc = "fetch" /\ ~elevReqs[r].aborted
  /\ elevReqs' = [elevReqs EXCEPT ![r].pc = "body"]
  /\ UNCHANGED <<elevFrame, elevAbortController, profileState, chartState,
                 statElevation>>

\* The body read of an aborted request: resp.json() rejects with AbortError,
\* or it had resolved and `if (signal.aborted) return` is taken.
ElevBodyAborted(r) ==
  /\ elevReqs[r].pc = "body" /\ elevReqs[r].aborted
  /\ ElevReturns(r)
  /\ UNCHANGED <<elevFrame, profileState, chartState, statElevation>>

\* A catch that would return without a word.
ElevBodyErrorSilent(r) ==
  /\ elevReqs[r].pc = "body" /\ ~elevReqs[r].aborted
  /\ ElevReturns(r)
  /\ UNCHANGED <<elevFrame, profileState, chartState, statElevation>>

\* resp.json() rejects (the body is not JSON): the catch shows 'Error'.
ElevBodyError(r) ==
  /\ elevReqs[r].pc = "body" /\ ~elevReqs[r].aborted
  /\ ElevReturns(r)
  /\ statElevation' = StatError
  /\ UNCHANGED <<elevFrame, profileState, chartState>>

\* The profile built from a response: lines 1142-1167.
BuildProfile(req, data) ==
  IF HasElevations(data)
    THEN [elevations |-> Sanitize(data.elevations),
          distances |-> Distances(req.sampled),
          coordinates |-> req.sampled,
          indices |-> req.indices]
    ELSE [distances |-> Distances(req.sampled),
          coordinates |-> req.sampled,
          indices |-> req.indices]

\* resp.json() resolves on a request that was not aborted: lines 1140-1171,
\* and the catch of 1173-1177 when applyGradientColoring throws on
\* routeElevations.elevations.length because the response has no elevations.
ElevApply(r, data) ==
  /\ elevReqs[r].pc = "body" /\ ~elevReqs[r].aborted
  /\ data \in ElevationAnswers(Len(elevReqs[r].sampled))
  /\ ElevReturns(r)
  /\ routeElevationGain' = GainOrZero(data)
  /\ routeElevations' = BuildProfile(elevReqs[r], data)
  /\ elevEdit' = elevReqs[r].edit
  /\ IF ~HasElevations(data)
       THEN /\ statElevation' = StatError
            /\ UNCHANGED chartState
       ELSE /\ statElevation' = UpdateStats(routeElevationGain')
            /\ gradientFeatures' =
                 ApplyGradientColoring(routeElevations', routeGeometry, gradientFeatures)
            /\ chartShown' = DrawElevationProfile(routeElevations').shown
            /\ profileCache' = DrawElevationProfile(routeElevations').cache
            /\ canvas' = CanvasAfterDraw(routeElevations', canvas)
  /\ UNCHANGED elevFrame

\* ------------------------------------------------------ surface responses
surfFrame == <<waypoints, edits, burst, routeTimeout, routeReqs, routeIssued, elevReqs,
               elevAbortController, routeGeometry, geomEdit, routeDistance,
               profileState, uiState, otherVars>>

\* The fetchSurface() call at position r returns.
SurfReturns(r) ==
  /\ surfReqs' = RemoveAt(surfReqs, r)
  /\ surfaceAbortController' = ControllerAfter(surfaceAbortController, r)

\* fetch rejects with AbortError.
SurfFetchAborted(r) ==
  /\ surfReqs[r].pc = "fetch" /\ surfReqs[r].aborted
  /\ SurfReturns(r)
  /\ UNCHANGED <<surfFrame, routeSurfaceData>>

\* fetch rejects, or resolves with !resp.ok: nothing is shown.
SurfFetchFails(r) ==
  /\ surfReqs[r].pc = "fetch" /\ ~surfReqs[r].aborted
  /\ SurfReturns(r)
  /\ UNCHANGED <<surfFrame, routeSurfaceData>>

\* fetch resolves with resp.ok: the function awaits resp.json().
SurfFetchOk(r) ==
  /\ surfReqs[r].pc = "fetch" /\ ~surfReqs[r].aborted
  /\ surfReqs' = [surfReqs EXCEPT ![r].pc = "body"]
  /\ UNCHANGED <<surfFrame, surfaceAbortController, routeSurfaceData>>

\* The body read of an aborted surface request.
SurfBodyAborted(r) ==
  /\ surfReqs[r].pc = "body" /\ surfReqs[r].aborted
  /\ SurfReturns(r)
  /\ UNCHANGED <<surfFrame, routeSurfaceData>>

\* resp.json() rejects on a surface request that was not aborted.
SurfBodyError(r) ==
  /\ surfReqs[r].pc = "body" /\ ~surfReqs[r].aborted
  /\ SurfReturns(r)
  /\ UNCHANGED <<surfFrame, routeSurfaceData>>

\* A surface response that would also drop the profile.
SurfApplyClearsProfile(r, data) ==
  /\ surfReqs[r].pc = "body" /\ ~surfReqs[r].aborted
  /\ data \in SurfaceAnswers
  /\ SurfReturns(r)
  /\ routeSurfaceData' = data
  /\ routeElevations' = Null
  /\ UNCHANGED <<waypoints, edits, burst, routeTimeout, routeReqs,
                 routeIssued, elevReqs, elevAbortController, routeGeometry,
                 geomEdit, routeDistance, elevEdit, routeElevationGain,
                 uiState, otherVars>>

\* routeSurfaceData = data; renderSurfaceBar(data)
SurfApply(r, data) ==
  /\ surfReqs[r].pc = "body" /\ ~surfReqs[r].aborted
  /\ data \in SurfaceAnswers
  /\ SurfReturns(r)
  /\ routeSurfaceData' = data
  /\ UNCHANGED surfFrame

\* ------------------------------------------------------------ specification
Edit(limit) ==
  \/ onMapClick(limit)
  \/ dragWaypoint(limit)
  \/ removeWaypoint(limit)
  \/ clearRoute(limit)

Routing ==
  \/ TimerFires
  \/ \E r \in DOMAIN routeReqs :
       \/ RouteFails(r)
       \/ \E g \in RouteAnswers(routeReqs[r].nwp) : RouteArrives(r, g)

Elevation ==
  \E r \in DOMAIN elevReqs :
    \/ ElevFetchAborted(r)
    \/ ElevFetchNetworkError(r)
    \/ ElevFetchNotOk(r)
    \/ ElevErrorBody(r)
    \/ ElevFetchOk(r)
    \/ ElevBodyAborted(r)
    \/ ElevBodyError(r)
    \/ \E d \in ElevationAnswers(Len(elevReqs[r].sampled)) : ElevApply(r, d)

Surface ==
  \E r \in DOMAIN surfReqs :
    \/ SurfFetchAborted(r)
    \/ SurfFetchFails(r)
    \/ SurfFetchOk(r)
    \/ SurfBodyAborted(r)
    \/ SurfBodyError(r)
    \/ \E d \in SurfaceAnswers : SurfApply(r, d)

Next == Edit(MaxEdits) \/ Routing \/ Elevation \/ Surface

Spec == Init /\ [][Next]_vars

\* The same session when every elevation request that was issued settles:
\* the steps of its fetchElevation call are taken as long as one is left.
SpecLive == Init /\ [][Next]_vars /\ WF_vars(Elevation)

\* The same session followed through more edits, for bursts of edits.
BurstNext == Edit(BurstEdits) \/ Routing \/ Elevation \/ Surface

SpecBurst == Init /\ [][BurstNext]_vars

\* --------------------------------------------- the sampling loop on its own
\* A path of 2..MaxSamplerLen points, all at one position or 1 km apart.
SamplerInit ==
  /\ BuilderInit
  /\ samplerPath \in {RoutePath(m, v) : m \in 2..MaxSamplerLen, v \in {0, 1}}
  /\ samplerOut = Null
  /\ DetailIdle
  /\ HoverIdle
  /\ GradeIdle
  /\ PeaksIdle

\* Lines 1107-1120 of shared.js, 186-197 of the route detail page.
RunSampler ==
  /\ samplerOut = Null
  /\ samplerOut' = Sample(samplerPath)
  /\ UNCHANGED <<builderVars, samplerPath, detailVars, hoverVars, gradeVars,
                 peaksVars>>

SamplerNext == RunSampler

SpecSampler == SamplerInit /\ [][SamplerNext]_vars

\* ---------------------------------------------------- the route detail page
\* (src/unnamed/part_001)
\* What an elevation is worth in JavaScript arithmetic: null counts as 0.
ToNumber(elevations) ==
  [i \in 1..Len(elevations) |->
     IF elevations[i].t = "num" THEN elevations[i].v ELSE 0]

\* JSON.stringify(routeElevations) of a builder profile for a path of m
\* points that holds k elevations: what saveRoute stores.
SavedProfile(m, k) ==
  LET s == Sample(RoutePath(m, 1))
  IN  [elevations |-> ElevationList("rising", k),
       distances |-> Distances(s.sampled),
       coordinates |-> s.sampled,
       indices |-> s.indices]

\* The same as the first builder stores it: without indices.
SavedProfileNoIndices(m, k) ==
  LET s == Sample(RoutePath(m, 1))
  IN  [elevations |-> ElevationList("rising", k),
       distances |-> Distances(s.sampled),
       coordinates |-> s.sampled]

\* The same after a response without elevations: without that field.
SavedProfileNoElevations(m) ==
  LET s == Sample(RoutePath(m, 1))
  IN  [distances |-> Distances(s.sampled),
       coordinates |-> s.sampled,
       indices |-> s.indices]

\* routeData.elevation_profile: '' , a string that does not parse, or a saved
\* profile (of one elevation, of none, of as many as its path has points).
CachedProfiles ==
  {[kind |-> "absent"],
   [kind |-> "unparsable"],
   [kind |-> "json", value |-> SavedProfile(2, 1)],
   [kind |-> "json", value |-> SavedProfileNoElevations(2)],
   [kind |-> "json", value |-> SavedProfile(2, 2)],
   [kind |-> "json", value |-> SavedProfile(3, 3)],
   [kind |-> "json", value |-> SavedProfileNoIndices(3, 3)]}

\* The answers of /api/routes/<id>: the saved profile and the saved geometry
\* are stored as the builder had them, which need not belong together.
RouteDatas ==
  [elevation_profile : CachedProfiles,
   coordinates : {RoutePath(m, 1) : m \in 0..3},
   elevation_m : {0, 50},
   surface_data : {Null, [breakdown |-> <<[type |-> "asphalt",
                                           percentage |-> 100]>>]}]

\* routeElevations.elevations && routeElevations.elevations.length >= 2
CachedAny(profile) == HasElevations(profile)
CachedUsable(profile) ==
  HasElevations(profile) /\ Len(profile.elevations) >= 2

\* The features applyGradientColoring of the detail page puts on the map.
DetailGradientFeatures(profile, allCoords) ==
  GradientFeatures([profile EXCEPT !.elevations = ToNumber(@)], allCoords)

\* The profile the detail page stores from a response: the elevations as
\* they came.
DetailBuildProfile(req, data) ==
  IF HasElevations(data)
    THEN [elevations |-> data.elevations,
          distances |-> Distances(req.sampled),
          coordinates |-> req.sampled,
          indices |-> req.indices]
    ELSE [distances |-> Distances(req.sampled),
          coordinates |-> req.sampled,
          indices |-> req.indices]

\* loadRoute, `resp.ok` false or an exception: nothing but the title changes.
DetailLoadFails ==
  /\ detailPc = "loading"
  /\ detailPc' = "failed"
  /\ UNCHANGED <<routeData, detailElevations, detailLookup, detailRequest,
                 detailStat, detailChartShown, detailCache, detailOverlay,
                 detailSurfaceBar, detailSurfaceLookup>>
  /\ UNCHANGED <<builderVars, samplerVars, hoverVars, gradeVars, peaksVars>>

\* loadRoute from `routeData = await resp.json()`: renderRouteInfo, drawRoute
\* and the synchronous parts of fetchElevation and fetchSurface.
DetailLoad(rd) ==
  /\ detailPc = "loading"
  /\ detailPc' = "loaded"
  /\ routeData' = rd
  /\ detailStat' = IF rd.elevation_m # 0 THEN StatGain(rd.elevation_m)
                   ELSE detailStat
  /\ LET cached == rd.elevation_profile
         parsed == cached.kind = "json"
         usable == parsed /\ CachedUsable(cached.value)
         coords == rd.coordinates
     IN  /\ detailElevations' = IF parsed THEN cached.value ELSE Null
         /\ IF usable
              THEN /\ detailOverlay' =
                        [features |-> DetailGradientFeatures(cached.value, coords)]
                   /\ detailChartShown' = DrawElevationProfile(cached.value).shown
                   /\ detailCache' = DrawElevationProfile(cached.value).cache
                   /\ UNCHANGED <<detailLookup, detailRequest>>
              ELSE /\ UNCHANGED <<detailOverlay, detailChartShown, detailCache>>
                   /\ IF Len(coords) < 2
                        THEN UNCHANGED <<detailLookup, detailRequest>>
                        ELSE /\ detailLookup' = "pending"
                             /\ detailRequest' = Sample(coords)
         /\ IF rd.surface_data # Null
              THEN /\ detailSurfaceBar' = rd.surface_data
                   /\ UNCHANGED detailSurfaceLookup
              ELSE /\ UNCHANGED detailSurfaceBar
                   /\ detailSurfaceLookup' = (Len(coords) >= 2)
  /\ UNCHANGED <<builderVars, samplerVars, hoverVars, gradeVars, peaksVars>>

\* The elevation lookup answers !resp.ok, or fetch / resp.json() rejects:
\* fetchElevation returns, the catch only logs.
DetailElevFails ==
  /\ detailLookup = "pending"
  /\ detailLookup' = "failed"
  /\ UNCHANGED <<routeData, detailPc, detailElevations, detailRequest,
                 detailStat, detailChartShown, detailCache, detailOverlay,
                 detailSurfaceBar, detailSurfaceLookup>>
  /\ UNCHANGED <<builderVars, samplerVars, hoverVars, gradeVars, peaksVars>>

\* The elevation lookup answers: lines 207-228 of the detail page, and its
\* catch when applyGradientColoring throws for want of an elevations list.
DetailElevApply(data) ==
  /\ detailLookup = "pending"
  /\ data \in ElevationAnswers(Len(detailRequest.sampled))
  /\ detailLookup' = "applied"
  /\ detailElevations' = DetailBuildProfile(detailRequest, data)
  /\ detailStat' = IF GainOrZero(data) # 0 THEN StatGain(GainOrZero(data))
                   ELSE detailStat
  /\ IF ~HasElevations(data)
       THEN UNCHANGED <<detailOverlay, detailChartShown, detailCache>>
       ELSE /\ detailOverlay' =
                 IF Len(data.elevations) < 2 THEN detailOverlay
                 ELSE [features |->
                         DetailGradientFeatures(detailElevations',
                                                routeData.coordinates)]
            /\ detailChartShown' = DrawElevationProfile(detailElevations').shown
            /\ detailCache' = DrawElevationProfile(detailElevations').cache
  /\ UNCHANGED <<routeData, detailPc, detailRequest, detailSurfaceBar,
                 detailSurfaceLookup>>
  /\ UNCHANGED <<builderVars, samplerVars, hoverVars, gradeVars, peaksVars>>

\* The surface lookup fails, or answers without a breakdown.
DetailSurfaceFails ==
  /\ detailSurfaceLookup
  /\ detailSurfaceLookup' = FALSE
  /\ UNCHANGED <<routeData, detailPc, detailElevations, detailLookup,
                 detailRequest, detailStat, detailChartShown, detailCache,
                 detailOverlay, detailSurfaceBar>>
  /\ UNCHANGED <<builderVars, samplerVars, hoverVars, gradeVars, peaksVars>>

\* The surface lookup answers with a breakdown: renderSurfaceBar(data).
DetailSurfaceApply(data) ==
  /\ detailSurfaceLookup
  /\ data \in SurfaceAnswers
  /\ detailSurfaceLookup' = FALSE
  /\ detailSurfaceBar' = data
  /\ UNCHANGED <<routeData, detailPc, detailElevations, detailLookup,
                 detailRequest, detailStat, detailChartShown, detailCache,
                 detailOverlay>>
  /\ UNCHANGED <<builderVars, samplerVars, hoverVars, gradeVars, peaksVars>>

DetailInit ==
  /\ BuilderInit
  /\ SamplerIdle
  /\ DetailIdle
  /\ HoverIdle
  /\ GradeIdle
  /\ PeaksIdle

DetailNext ==
  \/ DetailLoadFails
  \/ \E rd \in RouteDatas : DetailLoad(rd)
  \/ DetailElevFails
  \/ /\ detailLookup = "pending"
     /\ \E d \in ElevationAnswers(Len(detailRequest.sampled)) :
          DetailElevApply(d)
  \/ DetailSurfaceFails
  \/ \E d \in SurfaceAnswers : DetailSurfaceApply(d)

SpecDetail == DetailInit /\ [][DetailNext]_vars

\* ----------------------------------------------- the hover lookup on its own
\* (setupProfileHover, the mousemove listener)
\* Cumulative distances of a profile whose consecutive samples lie steps[i]
\* km apart.
Cumulative(steps) ==
  LET d[i \in 1..(Len(steps) + 1)] ==
        IF i = 1 THEN 0 ELSE d[i - 1] + steps[i - 1]
  IN  [i \in 1..(Len(steps) + 1) |-> d[i]]

\* Math.abs(dists[i] - targetDist) with targetDist = frac * dists[last] and
\* frac = p / q, multiplied by q to stay in the integers (i is 1-based).
HoverGap(dists, i, p, q) == Abs(q * dists[i] - p * dists[Len(dists)])

\* The comparison of the loop: a < b.
CloserOrEqual(a, b) == a <= b
Closer(a, b) == a < b

\* let closest = 0; for (i = 1; i < dists.length; i++) if (...) closest = i;
\* the result is the 0-based index.
Closest(dists, p, q) ==
  LET c[i \in 1..Len(dists)] ==
        IF i = 1 THEN 1
        ELSE IF Closer(HoverGap(dists, i, p, q), HoverGap(dists, c[i - 1], p, q))
               THEN i
               ELSE c[i - 1]
  IN  c[Len(dists)] - 1

\* A profile of 2..MaxHoverLen samples and a pointer at p / HoverGrid of the
\* chart width.
HoverInit ==
  /\ BuilderInit
  /\ SamplerIdle
  /\ DetailIdle
  /\ GradeIdle
  /\ PeaksIdle
  /\ hoverIn \in {[dists |-> Cumulative(steps), p |-> p, q |-> HoverGrid] :
                    steps \in UNION {[1..n -> 0..MaxHoverStep] :
                                       n \in 1..(MaxHoverLen - 1)},
                    p \in 0..HoverGrid}
  /\ hoverOut = Null

\* The mousemove listener up to the choice of `closest`.
RunHover ==
  /\ hoverOut = Null
  /\ hoverOut' = [closest |-> Closest(hoverIn.dists, hoverIn.p, hoverIn.q)]
  /\ UNCHANGED <<builderVars, samplerVars, detailVars, hoverIn, gradeVars,
                 peaksVars>>

HoverNext == RunHover

SpecHover == HoverInit /\ [][HoverNext]_vars

\* --------------------------------------- the grade computations on their own
\* (applyGradientColoring, drawElevationProfile, drawProfileHoverOverlay)
\* The elevations, in m, the profiles of this part are made of.
GradeElevations == {0, 100, 150}

\* A profile of 2..MaxGradeLen samples, consecutive samples 0..MaxGradeStep
\* km apart.
GradeInit ==
  /\ BuilderInit
  /\ SamplerIdle
  /\ DetailIdle
  /\ HoverIdle
  /\ PeaksIdle
  /\ gradeIn \in UNION {[elevations : [1..n -> GradeElevations],
                         distances : {Cumulative(steps) :
                                        steps \in [1..(n - 1) -> 0..MaxGradeStep]}] :
                          n \in 2..MaxGradeLen}
  /\ gradeOut = Null

\* The grade of every segment as the overlay and the chart colour it, and as
\* the tooltip shows it when the pointer is on the segment's first sample.
RunGrade ==
  /\ gradeOut = Null
  /\ gradeOut' =
       [colour |-> [i \in 1..(Len(gradeIn.elevations) - 1) |->
                      Grade(gradeIn.elevations, gradeIn.distances, i)],
        tooltip |-> [i \in 1..(Len(gradeIn.elevations) - 1) |->
                       SignedGrade(gradeIn.elevations, gradeIn.distances, i)]]
  /\ UNCHANGED <<builderVars, samplerVars, detailVars, hoverVars, gradeIn,
                 peaksVars>>

GradeNext == RunGrade

SpecGrade == GradeInit /\ [][GradeNext]_vars

\* ------------------------------------ the peak / valley marking on its own
\* (drawElevationProfile)
\* Math.min(...elevs), Math.max(...elevs)
SeqMin(elevs) == CHOOSE v \in {elevs[i] : i \in DOMAIN elevs} :
                   \A i \in DOMAIN elevs : v <= elevs[i]
SeqMax(elevs) == CHOOSE v \in {elevs[i] : i \in DOMAIN elevs} :
                   \A i \in DOMAIN elevs : v >= elevs[i]

\* const elevRange = maxElev - minElev || 1;
ElevRange(elevs) ==
  IF SeqMax(elevs) - SeqMin(elevs) = 0 THEN 1
  ELSE SeqMax(elevs) - SeqMin(elevs)

\* A mark on every local maximum, whatever its height.
IsPeakAnyHeight(elevs, i) ==
  elevs[i] > elevs[i - 1] /\ elevs[i] > elevs[i + 1]

\* isPeak, isValley for the 1-based interior position i; x > elevRange * 0.08
\* is 100 * x > 8 * elevRange.
IsPeak(elevs, i) ==
  /\ elevs[i] > elevs[i - 1]
  /\ elevs[i] > elevs[i + 1]
  /\ 100 * (elevs[i] - Min(elevs[i - 1], elevs[i + 1])) > 8 * ElevRange(elevs)

IsValley(elevs, i) ==
  /\ elevs[i] < elevs[i - 1]
  /\ elevs[i] < elevs[i + 1]
  /\ 100 * (Max(elevs[i - 1], elevs[i + 1]) - elevs[i]) > 8 * ElevRange(elevs)

\* The loop of lines 1355-1369: the 0-based indices that get a red dot and
\* those that get a green one.
MarkPeaks(elevs) ==
  LET interior == 2..(Len(elevs) - 1)
  IN  [red |-> {i - 1 : i \in {j \in interior : IsPeak(elevs, j)}},
       green |-> {i - 1 : i \in {j \in interior :
                                   ~IsPeak(elevs, j) /\ IsValley(elevs, j)}}]

\* The elevations, in m, the profiles of this part are made of.
PeakElevations == {0, 8, 9, 100}

\* A profile of 2..MaxPeaksLen samples, as drawElevationProfile draws them.
PeaksInit ==
  /\ BuilderInit
  /\ SamplerIdle
  /\ DetailIdle
  /\ HoverIdle
  /\ GradeIdle
  /\ peaksIn \in UNION {[elevations : [1..n -> PeakElevations]] :
                          n \in 2..MaxPeaksLen}
  /\ peaksOut = Null

RunPeaks ==
  /\ peaksOut = Null
  /\ peaksOut' = MarkPeaks(peaksIn.elevations)
  /\ UNCHANGED <<builderVars, samplerVars, detailVars, hoverVars, gradeVars,
                 peaksIn>>

PeaksNext == RunPeaks

SpecPeaks == PeaksInit /\ [][PeaksNext]_vars

\* ------------------------------------------- the pointer over the chart
\* (setupProfileHover of the builder; the listeners exist once
\* drawElevationProfile has painted the canvas for the first time, which is
\* when it sets canvas._hasHoverSetup)
HasHoverSetup == canvas # Null

\* frac < 0 || frac > 1 with frac = k / PointerGrid.
OffPlotLeft(k) == k < 0
OffPlot(k) == k < 0 \/ k > PointerGrid

\* What is painted once the overlay of one hover was drawn over what was
\* there.
KeepPixels(pixels, cache) == [base |-> cache, hover |-> pixels.hover]
\* ctx.putImageData(_profileCache, 0, 0): the cached raster replaces every
\* pixel of the canvas.
RestoreBase(pixels, cache) == [base |-> cache, hover |-> {}]

\* The 'mousemove' listener with the pointer at k / PointerGrid of the plot
\* width.  After the raster is restored, Math.min(...elevs) throws when the
\* profile has no elevations and drawProfileHoverOverlay throws on
\* points[idx].x when it has fewer elevations than distances: the listener
\* then ends with the bare raster on the canvas and the marker untouched.
PointerMove(k) ==
  /\ HasHoverSetup
  /\ pointer # [p |-> k]
  /\ pointer' = [p |-> k]
  /\ IF routeElevations = Null \/ profileCache = Null \/ OffPlot(k)
       THEN UNCHANGED <<canvas, hoverMarker>>
       ELSE LET closest == Closest(routeElevations.distances, k, PointerGrid)
                drawn == /\ HasElevations(routeElevations)
                         /\ closest < Len(routeElevations.elevations)
                restored == RestoreBase(canvas, profileCache)
                at == At(routeElevations.coordinates, closest)
            IN  /\ canvas' = IF drawn
                               THEN [restored EXCEPT !.hover = @ \cup {closest}]
                               ELSE restored
                /\ hoverMarker' = IF drawn /\ at # Undefined
                                    THEN <<at.pt>>
                                    ELSE hoverMarker
  /\ UNCHANGED <<waypoints, edits, burst, routeTimeout, requestVars,
                 routeState, statElevation, chartShown, profileCache,
                 gradientFeatures, saveVars, samplerVars, detailVars,
                 hoverVars, gradeVars, peaksVars>>

\* The 'mouseleave' listener.
PointerLeave ==
  /\ HasHoverSetup
  /\ pointer # Null
  /\ pointer' = Null
  /\ IF profileCache = Null
       THEN UNCHANGED <<canvas, hoverMarker>>
       ELSE /\ canvas' = RestoreBase(canvas, profileCache)
            /\ hoverMarker' = <<>>
  /\ UNCHANGED <<waypoints, edits, burst, routeTimeout, requestVars,
                 routeState, statElevation, chartShown, profileCache,
                 gradientFeatures, saveVars, samplerVars, detailVars,
                 hoverVars, gradeVars, peaksVars>>

Pointer ==
  \/ \E k \in (0 - 1)..(PointerGrid + 1) : PointerMove(k)
  \/ PointerLeave

\* A builder session with the pointer moving over the chart.
PointerNext == Next \/ Pointer

SpecPointer == Init /\ [][PointerNext]_vars

\* ------------------------------------------------------------ saving
\* The [lng, lat] pairs a list of coordinate arrays is written as: JSON text
\* keeps their values, not their identity.
Positions(coords) == [i \in 1..Len(coords) |-> coords[i].pt]

\* JSON.stringify(routeElevations): a property that is undefined is left
\* out.
StringifyProfile(profile) ==
  IF HasElevations(profile)
    THEN [elevations |-> profile.elevations,
          distances |-> profile.distances,
          coordinates |-> Positions(profile.coordinates),
          indices |-> profile.indices]
    ELSE [distances |-> profile.distances,
          coordinates |-> Positions(profile.coordinates),
          indices |-> profile.indices]

\* The payload of lines 1528-1541, without the texts of the form.
SavePayload ==
  [distance_m |-> routeDistance,
   elevation_m |-> routeElevationGain,
   geometry |-> Positions(routeGeometry.coordinates),
   elevation_profile |-> IF routeElevations # Null
                           THEN [kind |-> "json",
                                 value |-> StringifyProfile(routeElevations)]
                           ELSE [kind |-> "absent"],
   surface_data |-> routeSurfaceData,
   stored |-> FALSE]

saveFrame == <<waypoints, edits, burst, routeTimeout, requestVars, routeState,
               uiState, pointerVars, samplerVars, detailVars, hoverVars,
               gradeVars, peaksVars>>

\* window.saveRoute up to `await fetch(url, ...)`, with a route name typed
\* in; the Save button is disabled while a save is under way.
saveRoute ==
  /\ ~isSaving
  /\ routeGeometry # Null
  /\ isSaving' = TRUE
  /\ payload' = SavePayload
  /\ UNCHANGED saveFrame

\* The save answers !resp.ok, or throws: the button is enabled again.
SaveFails ==
  /\ isSaving
  /\ ~payload.stored
  /\ isSaving' = FALSE
  /\ UNCHANGED <<payload, saveFrame>>

\* The save answers resp.ok: the page is left for the page of the route.
SaveOk ==
  /\ isSaving
  /\ ~payload.stored
  /\ payload' = [payload EXCEPT !.stored = TRUE]
  /\ UNCHANGED <<isSaving, saveFrame>>

Save == saveRoute \/ SaveFails \/ SaveOk

\* A builder session in which the route is saved.
SaveNext == Next \/ Save

SpecSave == Init /\ [][SaveNext]_vars

\* ================================================================ properties
\* ------------------------------------------------------------------- C1
\* C1: a result derived from an older waypoint edit never replaces state
\* derived from a newer one: the edit routeGeometry reflects and the edit
\* routeElevations / routeElevationGain reflect never go back.
C1_NoStaleOverwrite ==
  [][geomEdit' >= geomEdit /\ elevEdit' >= elevEdit]_vars

\* ------------------------------------------------------------------- C2
\* The requests of a sequence whose signal is not aborted.
Active(reqs) == {r \in DOMAIN reqs : ~reqs[r].aborted}

\* C2: among the elevation requests issued and not yet settled at most one
\* has a non-aborted signal, and the same holds for the surface requests.
C2_AtMostOneActive ==
  /\ Cardinality(Active(elevReqs)) <= 1
  /\ Cardinality(Active(surfReqs)) <= 1

\* Two elevation and two surface requests are unsettled at once, the older
\* of each aborted by the fetch that issued the newer.
C2_Witness ==
  /\ Len(elevReqs) = 2 /\ elevReqs[1].aborted /\ ~elevReqs[2].aborted
  /\ Len(surfReqs) = 2 /\ surfReqs[1].aborted /\ ~surfReqs[2].aborted

\* ------------------------------------------------------------------- C3
\* C3: once three geometry edits have followed each other within the
\* debounce delay (the timer did not fire between them), every elevation
\* request in flight is cancelled: none of them may still be applied.
C3_BurstCancelsInFlight ==
  burst >= 3 => \A r \in DOMAIN elevReqs : elevReqs[r].aborted

\* ------------------------------------------------------------------- C4
\* C4: the settlement of an elevation request whose signal is aborted
\* changes neither routeElevations, routeElevationGain, the overlay, the
\* chart nor the elevation stat text.
C4_AbortedSettlesSilently ==
  [][\A r \in DOMAIN elevReqs :
       (elevReqs[r].aborted /\ elevReqs' = RemoveAt(elevReqs, r))
         => UNCHANGED <<profileState, chartState, statElevation>>]_vars

\* ------------------------------------------------------------------- C5
\* C5: a geometry change cancels the elevation requests in flight at the
\* moment of the change: after the edit every one of them is aborted.
C5_EditCancelsInFlight ==
  [][edits' > edits => \A r \in DOMAIN elevReqs' : elevReqs'[r].aborted]_vars

\* ------------------------------------------------------------------- C6
\* C6: the sample list of a path of m >= 2 coordinates has at most
\* maxSamples + 1 entries.
C6_SampleCap ==
  samplerOut # Null => Len(samplerOut.sampled) <= maxSamples + 1

\* ------------------------------------------------------------------- C7
\* The stride the claim names: max(1, floor(m / 80)).
Stride(m) == IF m \div maxSamples >= 1 THEN m \div maxSamples ELSE 1

\* C7: the recorded indices are strictly increasing, the first is 0 and the
\* last is m - 1, each sampled coordinate is the path coordinate at its
\* index, and the final point is appended exactly when the stride does not
\* land on m - 1 (the list is one longer than the strided one in that case).
C7_SampleIndices ==
  samplerOut # Null =>
    LET m == Len(samplerPath)
        idx == samplerOut.indices
        smp == samplerOut.sampled
        strided == (m - 1) \div Stride(m) + 1
    IN  /\ Len(idx) = Len(smp)
        /\ idx[1] = 0
        /\ idx[Len(idx)] = m - 1
        /\ \A k \in 1..(Len(idx) - 1) : idx[k] < idx[k + 1]
        /\ \A k \in 1..Len(idx) : smp[k] = samplerPath[idx[k] + 1]
        /\ Len(idx) = strided + (IF (m - 1) % Stride(m) = 0 THEN 0 ELSE 1)

\* A path whose points all have the same position was sampled with a stride
\* of 2 that does not land on its last point, which was appended.
C7_Witness ==
  /\ samplerOut # Null
  /\ Len(samplerPath) = 162
  /\ samplerPath[1].pt = samplerPath[162].pt
  /\ Len(samplerOut.indices) = 82
  /\ samplerOut.indices[81] = 160
  /\ samplerOut.indices[82] = 161

\* ------------------------------------------------------------------- C8
\* c is a coordinate (and not the undefined an out-of-range read gives).
IsCoord(c) == "ref" \in DOMAIN c

\* The segments, in order, run through path from its first to its last
\* coordinate without a gap, each starting on the coordinate the previous
\* one ended on.
Covers(features, path) ==
  /\ Len(features) >= 1
  /\ \A k \in DOMAIN features :
       \A j \in DOMAIN features[k].coordinates :
         IsCoord(features[k].coordinates[j])
  /\ features[1].coordinates[1] = path[1]
  /\ LET last == features[Len(features)].coordinates
     IN  last[Len(last)] = path[Len(path)]
  /\ \A k \in DOMAIN features :
       LET c == features[k].coordinates
       IN  \A j \in 1..(Len(c) - 1) :
             /\ c[j].ref + 1 \in DOMAIN path
             /\ c[j] = path[c[j].ref]
             /\ c[j + 1] = path[c[j].ref + 1]
  /\ \A k \in 1..(Len(features) - 1) :
       LET c == features[k].coordinates
       IN  features[k + 1].coordinates[1] = c[Len(c)]

\* C8: whenever a response's profile is applied to the path, the segments
\* applyGradientColoring emits cover every coordinate of the path, sharing
\* exactly their boundary coordinates.
C8_SegmentsCoverPath ==
  [][\A r \in DOMAIN elevReqs :
       \A d \in ElevationAnswers(Len(elevReqs[r].sampled)) :
         (/\ ElevApply(r, d)
          /\ HasElevations(d)
          /\ Len(d.elevations) >= 2
          /\ routeGeometry # Null)
           => Covers(gradientFeatures', routeGeometry.coordinates)]_vars

\* ------------------------------------------------------------------- C9
\* The call at position r, not aborted, ends in the non-OK branch or in the
\* catch of the fetch.
ElevFails(r) ==
  /\ ~elevReqs[r].aborted
  /\ elevReqs[r].pc \in {"fetch", "errbody"}
  /\ elevReqs' = RemoveAt(elevReqs, r)

\* C9: when a non-aborted elevation request fails, routeElevations,
\* routeElevationGain, the overlay and the cached chart raster stay what
\* they were, the elevation stat shows 'Error', and no request is issued.
C9_FailureKeepsProfile ==
  [][\A r \in DOMAIN elevReqs :
       ElevFails(r) =>
         /\ UNCHANGED <<routeElevations, routeElevationGain, gradientFeatures,
                        profileCache, chartShown>>
         /\ statElevation' = StatError
         /\ UNCHANGED <<routeReqs, routeIssued, routeTimeout, surfReqs>>]_vars

\* A request failed while an earlier profile was on display: the error is
\* shown, the profile, its overlay and its chart are still there.
C9_Witness ==
  /\ statElevation = StatError
  /\ elevReqs = <<>>
  /\ routeElevations # Null
  /\ HasElevations(routeElevations)
  /\ elevEdit < geomEdit
  /\ chartShown
  /\ profileCache # Null
  /\ gradientFeatures # <<>>

\* ------------------------------------------------------------------ C10
\* The response carries no elevations list, or one whose length is not the
\* number of coordinates sent.
ShapeMismatch(req, data) ==
  \/ ~HasElevations(data)
  \/ Len(data.elevations) # Len(req.sampled)

\* C10: a response whose elevation count differs from the sample count
\* leaves the stored profile unchanged and shows the error indicator.
C10_MismatchRejected ==
  [][\A r \in DOMAIN elevReqs :
       \A d \in ElevationAnswers(Len(elevReqs[r].sampled)) :
         (ElevApply(r, d) /\ ShapeMismatch(elevReqs[r], d))
           => /\ UNCHANGED <<routeElevations, routeElevationGain>>
              /\ statElevation' = StatError
              /\ UNCHANGED <<routeReqs, routeIssued, routeTimeout>>]_vars

\* ------------------------------------------------------------------ C11
\* C11: a profile stored from a live elevation lookup contains no null and
\* no non-numeric elevation, on the detail page as in the builder.
C11_StoredElevationsNumeric ==
  (detailLookup = "applied" /\ HasElevations(detailElevations)) =>
    \A i \in DOMAIN detailElevations.elevations :
      detailElevations.elevations[i].t = "num"

\* ------------------------------------------------------------------ C12
\* The sum of the positive differences between consecutive elevations.
RECURSIVE PositiveDeltas(_)
PositiveDeltas(elevs) ==
  IF Len(elevs) < 2 THEN 0
  ELSE LET n == Len(elevs)
           delta == elevs[n] - elevs[n - 1]
       IN  PositiveDeltas(SubSeq(elevs, 1, n - 1))
             + (IF delta > 0 THEN delta ELSE 0)

\* C12: after a response is applied the stored gain is the gain the lookup
\* supplied, or, when it supplied none, the sum of the positive differences
\* between consecutive sanitized elevations.
C12_GainSuppliedOrComputed ==
  [][\A r \in DOMAIN elevReqs :
       \A d \in ElevationAnswers(Len(elevReqs[r].sampled)) :
         (ElevApply(r, d) /\ HasElevations(d)) =>
           routeElevationGain' =
             IF "elevation_gain_m" \in DOMAIN d THEN d.elevation_gain_m
             ELSE PositiveDeltas(Sanitize(d.elevations))]_vars

\* ------------------------------------------------------------------ C13
\* C13: the index the hover handler selects minimises |distances[i] - target|
\* and is the lowest of the indices that do.
C13_NearestLowest ==
  hoverOut # Null =>
    LET dists == hoverIn.dists
        sel == hoverOut.closest + 1
        gap(i) == Abs(hoverIn.q * dists[i] - hoverIn.p * dists[Len(dists)])
    IN  /\ sel \in DOMAIN dists
        /\ \A j \in DOMAIN dists : gap(sel) <= gap(j)
        /\ \A j \in 1..(sel - 1) : gap(j) > gap(sel)

\* A profile of three samples was hovered, its first sample was selected and
\* a later sample was exactly as close to the pointer.
C13_Witness ==
  /\ hoverOut # Null
  /\ Len(hoverIn.dists) = 3
  /\ hoverIn.p > 0
  /\ hoverIn.dists[3] > 0
  /\ hoverOut.closest = 0
  /\ \E j \in 2..3 :
       Abs(hoverIn.q * hoverIn.dists[j] - hoverIn.p * hoverIn.dists[3])
         = hoverIn.p * hoverIn.dists[3]

\* ------------------------------------------------------------------ C18
\* C18: for every pair of consecutive samples the colouring grade is
\* |rise| / run * 100 with run = (distances[i+1] - distances[i]) * 1000, never
\* negative and 0 when run is 0; the tooltip grade is the signed
\* rise / run * 100 under the same rule; samples at 0, 1 and 2 km with
\* elevations 100, 150, 100 give grade 5 on both segments.
C18_Grades ==
  gradeOut # Null =>
    LET e == gradeIn.elevations
        d == gradeIn.distances
    IN  /\ \A i \in 1..(Len(e) - 1) :
             LET rise == e[i + 1] - e[i]
                 run == (d[i + 1] - d[i]) * 1000
                 c == gradeOut.colour[i]
                 t == gradeOut.tooltip[i]
             IN  /\ c.den > 0 /\ c.num >= 0
                 /\ t.den > 0
                 /\ run = 0 => (c.num = 0 /\ t.num = 0)
                 /\ run > 0 => /\ c.num * run = Abs(rise) * 100 * c.den
                               /\ t.num * run = rise * 100 * t.den
        /\ (e = <<100, 150, 100>> /\ d = <<0, 1, 2>>) =>
             /\ gradeOut.colour[1].num = 5 * gradeOut.colour[1].den
             /\ gradeOut.colour[2].num = 5 * gradeOut.colour[2].den

\* The grades of the profile 100, 150, 100 m at 0, 1, 2 km were computed, the
\* second segment falling.
C18_Witness ==
  /\ gradeOut # Null
  /\ gradeIn.elevations = <<100, 150, 100>>
  /\ gradeIn.distances = <<0, 1, 2>>
  /\ gradeOut.tooltip[2].num < 0

\* ------------------------------------------------------------------ C19
\* C19: an interior index is marked as a peak exactly when its elevation is
\* strictly above both neighbours and above the lower neighbour by more than
\* 0.08 * range, as a valley exactly when it is strictly below both and below
\* the higher one by more than 0.08 * range (range = max - min, 1 when that is
\* 0); the first and last index are never marked, none is marked as both.
C19_PeaksAndValleys ==
  peaksOut # Null =>
    LET e == peaksIn.elevations
        n == Len(e)
        hi == CHOOSE v \in {e[i] : i \in 1..n} : \A i \in 1..n : v >= e[i]
        lo == CHOOSE v \in {e[i] : i \in 1..n} : \A i \in 1..n : v <= e[i]
        range == IF hi = lo THEN 1 ELSE hi - lo
        lower(k) == IF e[k] < e[k + 2] THEN e[k] ELSE e[k + 2]
        higher(k) == IF e[k] > e[k + 2] THEN e[k] ELSE e[k + 2]
    IN  /\ \A k \in 1..(n - 2) :
             /\ k \in peaksOut.red <=>
                  /\ e[k + 1] > e[k] /\ e[k + 1] > e[k + 2]
                  /\ 100 * (e[k + 1] - lower(k)) > 8 * range
             /\ k \in peaksOut.green <=>
                  /\ e[k + 1] < e[k] /\ e[k + 1] < e[k + 2]
                  /\ 100 * (higher(k) - e[k + 1]) > 8 * range
        /\ peaksOut.red \subseteq 1..(n - 2)
        /\ peaksOut.green \subseteq 1..(n - 2)
        /\ peaksOut.red \cap peaksOut.green = {}

\* A profile with a valley and a peak of 9 m over a range of 100 m was
\* marked.
C19_Witness ==
  /\ peaksOut # Null
  /\ peaksIn.elevations = <<100, 0, 9, 0>>
  /\ peaksOut.red = {2}
  /\ peaksOut.green = {1}

\* ------------------------------------------------------------------ C14
\* C14: on the detail page an elevation lookup is issued if and only if the
\* saved elevation_profile is absent, unparsable or has fewer than 2
\* elevations, and the geometry has at least 2 coordinates; a saved profile
\* of fewer than 2 elevations is never rendered as chart or overlay; a valid
\* one is rendered without any lookup.
C14_CachedProfileOrLookup ==
  /\ detailPc # "loaded" => detailLookup = "none"
  /\ detailPc = "loaded" =>
       LET cached == routeData.elevation_profile
           valid == /\ cached.kind = "json"
                    /\ "elevations" \in DOMAIN cached.value
                    /\ Len(cached.value.elevations) >= 2
       IN  /\ detailLookup # "none" <=>
                (~valid /\ Len(routeData.coordinates) >= 2)
           /\ valid => /\ detailChartShown
                       /\ detailCache.elevations = cached.value.elevations
                       /\ detailOverlay # Null
                       /\ detailElevations = cached.value
           /\ (~valid /\ detailLookup # "applied") =>
                (~detailChartShown /\ detailCache = Null /\ detailOverlay = Null)
           /\ detailChartShown =>
                /\ Len(detailCache.elevations) >= 2
                /\ detailCache.elevations = detailElevations.elevations

\* A route whose saved profile holds a single elevation was loaded: nothing
\* is rendered and the lookup is under way.
C14_Witness ==
  /\ detailPc = "loaded"
  /\ routeData.elevation_profile.kind = "json"
  /\ "elevations" \in DOMAIN routeData.elevation_profile.value
  /\ Len(routeData.elevation_profile.value.elevations) = 1
  /\ detailLookup = "pending"
  /\ ~detailChartShown
  /\ detailOverlay = Null

\* ------------------------------------------------------------------ C15
\* C15: whenever routeElevations is not null its elevations, distances,
\* coordinates and indices have one length n >= 2, distances starts at 0 and
\* never decreases.
C15_ProfileShape ==
  routeElevations # Null =>
    /\ HasElevations(routeElevations)
    /\ Len(routeElevations.elevations) >= 2
    /\ Len(routeElevations.distances) = Len(routeElevations.elevations)
    /\ Len(routeElevations.coordinates) = Len(routeElevations.elevations)
    /\ Len(routeElevations.indices) = Len(routeElevations.elevations)
    /\ routeElevations.distances[1] = 0
    /\ \A i \in 1..(Len(routeElevations.distances) - 1) :
         routeElevations.distances[i] <= routeElevations.distances[i + 1]

\* ------------------------------------------------------------------ C16
\* C16: whenever there is no path of at least 2 coordinates the chart and the
\* gradient overlay are hidden and the elevation stat shows no value (the
\* dash, or the error text of a lookup that failed).
C16_NoPathNothingShown ==
  (routeGeometry = Null \/ ~FetchRuns(routeGeometry)) =>
    /\ ~chartShown
    /\ profileCache = Null
    /\ gradientFeatures = <<>>
    /\ statElevation \in {StatDash, StatError}

\* ------------------------------------------------------------------ C17
\* C17: when the routing engine answers no-route-found or the routing request
\* throws, routeGeometry, routeDistance, routeElevations, routeElevationGain
\* and routeSurfaceData are unchanged and no elevation or surface request is
\* issued.
C17_NoRouteChangesNothing ==
  [][\A r \in DOMAIN routeReqs :
       RouteFails(r) =>
         /\ UNCHANGED <<routeGeometry, routeDistance, routeElevations,
                        routeElevationGain, routeSurfaceData>>
         /\ elevReqs' = elevReqs
         /\ surfReqs' = surfReqs
         /\ UNCHANGED <<elevAbortController, surfaceAbortController>>]_vars

\* Two waypoints were placed, the one routing request made for them is over
\* and left no route: it failed, and nothing was fetched.
C17_Witness ==
  /\ edits = 2
  /\ waypoints = 2
  /\ routeIssued = 1
  /\ routeReqs = <<>>
  /\ routeGeometry = Null
  /\ routeDistance = 0
  /\ elevReqs = <<>>
  /\ surfReqs = <<>>

\* ------------------------------------------------------------------ C20
\* C20: the gradient overlay of a profile of n samples, drawn over a path of
\* at least 2 coordinates, has exactly n - 1 segments: a segment whose slice
\* of the full path has fewer than 2 points is emitted with the two sampled
\* coordinates, not left out.
C20_OneSegmentPerPair ==
  (detailOverlay # Null /\ Len(routeData.coordinates) >= 2) =>
    /\ Len(detailOverlay.features) = Len(detailElevations.elevations) - 1
    /\ \A k \in DOMAIN detailOverlay.features :
         Len(detailOverlay.features[k].coordinates) >= 2

\* ------------------------------------------------------------------ C21
\* C21: a pointer move whose position maps left of the plot or right of it
\* (fraction < 0 or > 1), or that happens while there is no profile or no
\* cached raster, leaves the pixels of the canvas and the map hover marker
\* exactly as they were.
C21_OutsideMoveIsNoOp ==
  [][\A k \in (0 - 1)..(PointerGrid + 1) :
       (/\ pointer' = [p |-> k]
        /\ pointer' # pointer
        /\ \/ k < 0
           \/ k > PointerGrid
           \/ routeElevations = Null
           \/ profileCache = Null)
         => UNCHANGED <<canvas, hoverMarker>>]_vars

\* The pointer stands right of the plot of a chart on display, and the
\* overlay and the marker of the hover before it are still there.
C21_Witness ==
  /\ pointer # Null
  /\ pointer.p > PointerGrid
  /\ routeElevations # Null
  /\ profileCache # Null
  /\ chartShown
  /\ canvas.hover # {}
  /\ hoverMarker # <<>>

\* ------------------------------------------------------------------ C22
\* C22: after every pointer-leave event on the chart, whatever the state of
\* the session, the map hover marker is empty and the canvas holds the chart
\* without any hover overlay.
C22_LeaveClearsHover ==
  [][(pointer # Null /\ pointer' = Null)
       => (hoverMarker' = <<>> /\ canvas'.hover = {})]_vars

\* ------------------------------------------------------------------ C23
\* C23: a pointer move or a pointer leave changes neither routeElevations,
\* routeElevationGain, routeGeometry, the gradient overlay nor _profileCache,
\* and what it leaves on the canvas is the cached raster with the overlay of
\* at most this one hover: the overlay of an earlier hover is gone.
C23_HoverReadsOnly ==
  [][pointer' # pointer =>
       /\ UNCHANGED <<routeElevations, routeElevationGain, routeGeometry,
                      gradientFeatures, profileCache>>
       /\ canvas' # canvas =>
            /\ canvas'.base = profileCache
            /\ Cardinality(canvas'.hover) <= 1
            /\ pointer' = Null => canvas'.hover = {}]_vars

\* The pointer stands on the last sample of a profile: the marker is on its
\* coordinate and the canvas holds the cached raster under the overlay of
\* that one sample.
C23_Witness ==
  /\ pointer # Null
  /\ pointer.p = PointerGrid
  /\ routeElevations # Null
  /\ profileCache # Null
  /\ hoverMarker = <<routeElevations.coordinates[Len(routeElevations.coordinates)].pt>>
  /\ canvas = [base |-> profileCache,
               hover |-> {Len(routeElevations.coordinates) - 1}]

\* ------------------------------------------------------------------ C24
\* C24: in the builder routeElevations is non-null only if routeGeometry is
\* non-null: while there is no route geometry the profile is null, the chart
\* is hidden and the elevation gain is 0, whatever elevation responses
\* arrive.
C24_ProfileOnlyWithGeometry ==
  routeGeometry = Null =>
    /\ routeElevations = Null
    /\ ~chartShown
    /\ routeElevationGain = 0

\* ------------------------------------------------------------------ C25
\* C25: in the builder, whenever there are fewer than 2 waypoints
\* routeGeometry is null and routeDistance is 0; a routing response that
\* arrives in such a state installs no route and starts no elevation and no
\* surface request.
C25_NoRouteBelowTwoWaypoints ==
  [][waypoints' < 2 =>
       /\ routeGeometry' = Null
       /\ routeDistance' = 0
       /\ Len(elevReqs') <= Len(elevReqs)
       /\ Len(surfReqs') <= Len(surfReqs)]_vars

\* ------------------------------------------------------------------ C26
\* C26: whenever saveRoute builds its payload with a non-empty
\* elevation_profile, that profile was computed from the geometry of the
\* same payload (both stem from the same edit), each of its indices is a
\* position of that geometry, and the coordinate there is the profile's
\* coordinate.
C26_SavedProfileMatchesGeometry ==
  [][(~isSaving /\ isSaving' /\ payload'.elevation_profile.kind = "json") =>
       LET profile == payload'.elevation_profile.value
           geometry == payload'.geometry
       IN  /\ elevEdit = geomEdit
           /\ \A k \in DOMAIN profile.indices :
                /\ profile.indices[k] + 1 \in DOMAIN geometry
                /\ geometry[profile.indices[k] + 1] = profile.coordinates[k]]_vars

\* ------------------------------------------------------------------ C27
\* C27: whenever no profile is present (routeElevations is null or the chart
\* is hidden) the map hover marker is empty, and whenever the marker is not
\* empty it lies on a coordinate of the current profile.
C27_MarkerFollowsProfile ==
  /\ (routeElevations = Null \/ ~chartShown) => hoverMarker = <<>>
  /\ hoverMarker # <<>> =>
       /\ routeElevations # Null
       /\ \E i \in DOMAIN routeElevations.coordinates :
            hoverMarker = <<routeElevations.coordinates[i].pt>>

\* ------------------------------------------------------------------ C28
\* C28: a routing request is issued only by the debounce timer, and only by
\* the timer the last edit started (so 300 ms after that edit): no edit was
\* made since the pending timer was started.  burst counts the edits that
\* restarted the timer since it last fired and is 0 after an edit that did
\* not.
C28_RequestOnlyAfterLastEdit ==
  [][routeIssued' > routeIssued => (routeTimeout /\ burst >= 1)]_vars

\* ------------------------------------------------------------------ C29
\* C29: provided every elevation request settles, whenever the elevation
\* stat shows the loading text '...' it later shows something else (a gain,
\* the dash or 'Error'); and it shows '...' only while a request that is not
\* aborted is pending: an aborted request leaves it loading only while a
\* newer one is under way.
C29_LoadingEnds ==
  /\ [](statElevation = StatLoading => Active(elevReqs) # {})
  /\ (statElevation = StatLoading) ~> (statElevation # StatLoading)

\* The stat shows '...' while an aborted request and the newer one that
\* aborted it are both pending.
C29_Witness ==
  /\ statElevation = StatLoading
  /\ Len(elevReqs) = 2
  /\ elevReqs[1].aborted
  /\ ~elevReqs[2].aborted

\* ------------------------------------------------------------------ C30
\* The flags of the requests reqs that stay in flight, after a fetch whose
\* controller held the signal of the request at position ctl.
AbortedBy(reqs, ctl) ==
  [r \in DOMAIN reqs |-> reqs[r].aborted \/ r = ctl]

\* C30: a step of a surface request (its response, its failure, its abort)
\* leaves routeElevations, routeElevationGain, the gradient overlay, the
\* chart, the elevation stat and the elevation requests unchanged; a step of
\* an elevation request leaves routeSurfaceData and the surface requests
\* unchanged; and a fetch aborts the request its own controller holds,
\* never a request of the other kind.
C30_SurfaceIndependent ==
  [][/\ (surfReqs' # surfReqs /\ Len(surfReqs') <= Len(surfReqs)) =>
          UNCHANGED <<routeElevations, routeElevationGain, gradientFeatures,
                      chartShown, profileCache, canvas, statElevation,
                      elevReqs, elevAbortController>>
     /\ (elevReqs' # elevReqs /\ Len(elevReqs') <= Len(elevReqs)) =>
          UNCHANGED <<routeSurfaceData, surfReqs, surfaceAbortController>>
     /\ Len(surfReqs') > Len(surfReqs) =>
          \A r \in DOMAIN surfReqs :
            surfReqs'[r].aborted = AbortedBy(surfReqs, surfaceAbortController)[r]
     /\ Len(elevReqs') > Len(elevReqs) =>
          \A r \in DOMAIN elevReqs :
            elevReqs'[r].aborted = AbortedBy(elevReqs, elevAbortController)[r]]_vars

\* The surface requests are over and one was applied, while the profile of
\* the first route is on display and the elevation request of the second is
\* still in flight, not aborted.
C30_Witness ==
  /\ routeSurfaceData # Null
  /\ surfReqs = <<>>
  /\ routeElevations # Null
  /\ chartShown
  /\ Len(elevReqs) = 1
  /\ ~elevReqs[1].aborted
  /\ elevEdit < elevReqs[1].edit

====
